---------------------------- MODULE Spec2Model ----------------------------
(***************************************************************************)
(* A model of resize-rs: the dimension resolver, the format resolver, the  *)
(* batch orchestrator (src/src/resizer.rs) and the worker / channel /      *)
(* polling consumer of the GUI application (src/src/app.rs).               *)
(***************************************************************************)
EXTENDS Integers, Sequences, FiniteSets, TLC

VARIABLES
    dimIn,      \* arguments of one dimension-resolver call
    dimOut,     \* its result, None before the call
    fmtIn,      \* arguments of one format-resolver call
    fmtOut,     \* its results, None before the call
    app,        \* the fields of ImageResizerApp
    runs,       \* the worker threads spawned so far, each with its batch_resize call
    chan,       \* per run, its mpsc channel: the queue and whether the receiver lives
    received,   \* per run, the messages the consumer has taken from its channel
    fs,         \* the output paths created or truncated so far
    inputs      \* how many user inputs the GUI has handled

(***************************************************************************)
(* Option<T> is a sequence of at most one value, Result<T, E> a record     *)
(* that holds the value in v or the error in e.  An anyhow error is the    *)
(* message its context or bail! gives it.                                  *)
(***************************************************************************)
None == << >>

Some(v) == <<v>>

Ok(v) == [ok |-> TRUE, v |-> <<v>>, e |-> << >>]

Err(e) == [ok |-> FALSE, v |-> << >>, e |-> <<e>>]

(***************************************************************************)
(* Bounds of the model.                                                    *)
(***************************************************************************)
MaxOrig == 18       \* largest source image side drawn
MaxTarget == 9      \* largest target side drawn
MaxBatchFiles == 2  \* longest file list handed to batch_resize directly
MaxFiles == 2       \* longest file list the file dialog returns
MaxRuns == 2        \* most runs started
MaxInputs == 4      \* most user inputs handled
NumPresets == 3     \* how many catalog presets the combo box offers here

(***************************************************************************)
(* IEEE-754 binary64 arithmetic, as far as calculate_aspect_ratio_size     *)
(* uses it.  TLC's integers are 32 bits wide, so a wide magnitude is a     *)
(* triple <<hi, mid, lo>> standing for hi * 2^60 + mid * 2^30 + lo, each   *)
(* limb below 2^30.  The same triples stand for u32 values, whose maximum  *)
(* does not fit a TLC integer either.                                      *)
(***************************************************************************)
Limb == 2^30

\* the magnitude of a TLC integer n >= 0
BigOf(n) == <<0, n \div Limb, n % Limb>>

BigZero == <<0, 0, 0>>

BigOne == <<0, 0, 1>>

BigLt(a, b) ==
    \/ a[1] < b[1]
    \/ a[1] = b[1] /\ a[2] < b[2]
    \/ a[1] = b[1] /\ a[2] = b[2] /\ a[3] < b[3]

BigLe(a, b) == ~BigLt(b, a)

BigDbl(a) ==
    LET l == 2 * a[3]
        m == 2 * a[2] + l \div Limb
    IN  <<2 * a[1] + m \div Limb, m % Limb, l % Limb>>

BigHalf(a) ==
    <<a[1] \div 2,
      (a[1] % 2) * (Limb \div 2) + a[2] \div 2,
      (a[2] % 2) * (Limb \div 2) + a[3] \div 2>>

BigOdd(a) == a[3] % 2 = 1

BigAdd(a, b) ==
    LET l == a[3] + b[3]
        m == a[2] + b[2] + l \div Limb
    IN  <<a[1] + b[1] + m \div Limb, m % Limb, l % Limb>>

\* a - b, for a >= b
BigSub(a, b) ==
    LET l  == a[3] - b[3]
        bl == IF l < 0 THEN 1 ELSE 0
        m  == a[2] - b[2] - bl
        bm == IF m < 0 THEN 1 ELSE 0
    IN  <<a[1] - b[1] - bm, m + bm * Limb, l + bl * Limb>>

RECURSIVE BigShr(_, _)
BigShr(a, k) == IF k <= 0 \/ a = BigZero THEN a ELSE BigShr(BigHalf(a), k - 1)

\* a * b by doubling; the product must stay below 2^90
RECURSIVE BigMul(_, _)
BigMul(a, b) ==
    IF b = BigZero THEN BigZero
    ELSE LET d == BigDbl(BigMul(a, BigHalf(b)))
         IN  IF BigOdd(b) THEN BigAdd(d, a) ELSE d

\* 2^53: a binary64 significand is below it
TwoTo53 == <<0, 2^23, 0>>

U32_MAX == <<0, 3, Limb - 1>>     \* 4294967295

(***************************************************************************)
(* A binary64 value that is not negative: NaN, +infinity, or m * 2^e with  *)
(* m < 2^53 held as a pair (zero is m = 0).  The values the resolver meets *)
(* are far from the subnormal and overflow ranges.                         *)
(***************************************************************************)
NaN == [k |-> "nan", m |-> BigZero, e |-> 0]

Inf == [k |-> "inf", m |-> BigZero, e |-> 0]

Fin(m, e) == [k |-> "fin", m |-> m, e |-> e]

IsZero(x) == x.k = "fin" /\ x.m = BigZero

\* f64::from(u32): exact
f64_from(n) == Fin(BigOf(n), 0)

\* round to nearest, ties to even, given the bit shifted out last (g) and
\* whether any bit shifted out before it was set (st)
RoundNearestEven(q, g, st) ==
    IF g /\ (st \/ BigOdd(q)) THEN BigAdd(q, BigOne) ELSE q

\* scale n and d until d <= n < 2d; n/d * 2^s stays the same
RECURSIVE DivNorm(_, _, _)
DivNorm(n, d, s) ==
    IF BigLt(n, d) THEN DivNorm(BigDbl(n), d, s - 1)
    ELSE IF BigLe(BigDbl(d), n) THEN DivNorm(n, BigDbl(d), s + 1)
    ELSE <<n, d, s>>

\* restoring division: i more quotient bits of n / d appended to q, for
\* st = <<n, q>> with n < 2d
RECURSIVE DivBits(_, _, _)
DivBits(st, d, i) ==
    IF i = 0 THEN st
    ELSE IF BigLe(d, st[1])
         THEN DivBits(<<BigDbl(BigSub(st[1], d)), BigAdd(BigDbl(st[2]), BigOne)>>, d, i - 1)
         ELSE DivBits(<<BigDbl(st[1]), BigDbl(st[2])>>, d, i - 1)

\* x / y in binary64
f64_div(x, y) ==
    IF x.k = "nan" \/ y.k = "nan" THEN NaN
    ELSE IF x.k = "inf" THEN (IF y.k = "inf" THEN NaN ELSE Inf)
    ELSE IF y.k = "inf" THEN Fin(BigZero, 0)
    ELSE IF IsZero(y) THEN (IF IsZero(x) THEN NaN ELSE Inf)
    ELSE IF IsZero(x) THEN Fin(BigZero, 0)
    ELSE LET nd == DivNorm(x.m, y.m, 0)
             nq == DivBits(<<nd[1], BigZero>>, nd[2], 53)
             g  == BigLe(nd[2], nq[1])
             r  == IF g THEN BigSub(nq[1], nd[2]) ELSE nq[1]
         IN  Fin(RoundNearestEven(nq[2], g, r # BigZero),
                 x.e - y.e + nd[3] - 52)

\* p * 2^e rounded to a 53-bit significand
RECURSIVE Round53(_, _, _, _)
Round53(p, e, g, st) ==
    IF BigLt(p, TwoTo53) THEN Fin(RoundNearestEven(p, g, st), e)
    ELSE Round53(BigHalf(p), e + 1, BigOdd(p), st \/ g)

\* x * y in binary64; one factor is f64::from of a u32, so the exact
\* product of the significands is below 2^85
f64_mul(x, y) ==
    IF x.k = "nan" \/ y.k = "nan" THEN NaN
    ELSE IF x.k = "inf" \/ y.k = "inf"
         THEN (IF IsZero(x) \/ IsZero(y) THEN NaN ELSE Inf)
    ELSE IF IsZero(x) \/ IsZero(y) THEN Fin(BigZero, 0)
    ELSE Round53(BigMul(y.m, x.m), x.e + y.e, FALSE, FALSE)

\* f64::round: to the nearest integer, halves away from zero
f64_round(x) ==
    IF x.k # "fin" \/ x.e >= 0 THEN x
    ELSE LET twice == BigShr(x.m, (0 - x.e) - 1)     \* floor(2x)
         IN  Fin(BigHalf(BigAdd(twice, BigOne)), 0)

\* m * 2^e, saturated at u32::MAX
RECURSIVE SatShl(_, _)
SatShl(m, e) ==
    IF BigLt(U32_MAX, m) THEN U32_MAX
    ELSE IF e <= 0 THEN m
    ELSE SatShl(BigDbl(m), e - 1)

\* `x as u32` for an x that is an integer or not finite: NaN is 0, and
\* values beyond the range saturate
as_u32(x) ==
    IF x.k = "nan" THEN BigZero
    ELSE IF x.k = "inf" THEN U32_MAX
    ELSE SatShl(x.m, x.e)

(***************************************************************************)
(* The dimension resolver.  A size is a pair of u32 values.                *)
(***************************************************************************)
calculate_aspect_ratio_size(ow, oh, target_width, target_height) ==
    LET original_aspect_ratio == f64_div(f64_from(ow), f64_from(oh))
    IN  IF target_width <= target_height
        THEN LET width  == target_width
                 height == as_u32(f64_round(f64_div(f64_from(width), original_aspect_ratio)))
             IN  <<BigOf(width), height>>
        ELSE LET height == target_height
                 width  == as_u32(f64_round(f64_mul(f64_from(height), original_aspect_ratio)))
             IN  <<width, BigOf(height)>>

\* new dimensions that follow the aspect ratio whatever the preset says
NewDimensionsAspect(ow, oh, width, height, maintain_aspect_ratio) ==
    calculate_aspect_ratio_size(ow, oh, width, height)

\* resize_image, "Calculate new dimensions"
NewDimensions(ow, oh, width, height, maintain_aspect_ratio) ==
    IF maintain_aspect_ratio
    THEN calculate_aspect_ratio_size(ow, oh, width, height)
    ELSE <<BigOf(width), BigOf(height)>>

\* resize_image, from "Calculate new dimensions" to the resize call: the
\* library operation invoked and the size handed to it
ResizeStep(ow, oh, width, height, maintain_aspect_ratio) ==
    [op |-> IF maintain_aspect_ratio THEN "resize" ELSE "resize_exact",
     size |-> NewDimensions(ow, oh, width, height, maintain_aspect_ratio)]

(***************************************************************************)
(* Strings are sequences of one-character strings.                         *)
(***************************************************************************)
UpperChars == <<"A", "B", "C", "D", "E", "F", "G", "H", "I", "J", "K", "L", "M",
                "N", "O", "P", "Q", "R", "S", "T", "U", "V", "W", "X", "Y", "Z">>

LowerChars == <<"a", "b", "c", "d", "e", "f", "g", "h", "i", "j", "k", "l", "m",
                "n", "o", "p", "q", "r", "s", "t", "u", "v", "w", "x", "y", "z">>

Digits == <<"0", "1", "2", "3", "4", "5", "6", "7", "8", "9">>

CharLower(c) ==
    IF \E i \in 1..26 : UpperChars[i] = c
    THEN LowerChars[CHOOSE i \in 1..26 : UpperChars[i] = c]
    ELSE c

CharUpper(c) ==
    IF \E i \in 1..26 : LowerChars[i] = c
    THEN UpperChars[CHOOSE i \in 1..26 : LowerChars[i] = c]
    ELSE c

\* str::to_lowercase
to_lowercase(s) == [i \in 1..Len(s) |-> CharLower(s[i])]

to_uppercase(s) == [i \in 1..Len(s) |-> CharUpper(s[i])]

\* the Display form of an unsigned integer
RECURSIVE Dec(_)
Dec(n) == IF n < 10 THEN <<Digits[n + 1]>> ELSE Dec(n \div 10) \o <<Digits[(n % 10) + 1]>>

(***************************************************************************)
(* A path is its directory and its last component.  The last component     *)
(* ".." (and an empty one, the root) has no file name.                     *)
(***************************************************************************)
PathOf(dir, name) == [dir |-> dir, name |-> name]

\* Path::file_name
file_name(path) ==
    IF path.name = << >> \/ path.name = <<".", ".">> THEN None ELSE Some(path.name)

\* the place of the last "." of a name, 0 when it has none
LastDot(name) ==
    IF \E i \in 1..Len(name) : name[i] = "."
    THEN CHOOSE i \in 1..Len(name) :
            name[i] = "." /\ \A j \in (i + 1)..Len(name) : name[j] # "."
    ELSE 0

\* Path::extension: what follows the last "." of the file name, unless the
\* name has no "." or only a leading one
extension(path) ==
    IF file_name(path) = None \/ LastDot(path.name) <= 1 THEN None
    ELSE Some(SubSeq(path.name, LastDot(path.name) + 1, Len(path.name)))

\* Path::file_stem: the file name without that extension
file_stem(path) ==
    IF file_name(path) = None THEN None
    ELSE IF LastDot(path.name) <= 1 THEN Some(path.name)
    ELSE Some(SubSeq(path.name, 1, LastDot(path.name) - 1))

\* PathBuf::join with a relative file name
join(dir, name) == PathOf(dir, name)

(***************************************************************************)
(* Presets (src/src/presets.rs).                                           *)
(***************************************************************************)
OutputFormat == {"KeepOriginal", "Jpeg", "Png", "Webp", "Bmp", "Tiff"}

ImageFormat == {"Jpeg", "Png", "Gif", "Bmp", "Tiff", "WebP"}

ResizePreset(name, width, height, maintain_aspect_ratio, output_format) ==
    [name |-> name, width |-> width, height |-> height,
     maintain_aspect_ratio |-> maintain_aspect_ratio,
     output_format |-> output_format]

PRESETS == <<
    ResizePreset("340x570", 340, 570, TRUE, "Png"),
    ResizePreset("1040x570", 1040, 570, TRUE, "Png"),
    ResizePreset("Instagram Square", 1080, 1080, FALSE, "KeepOriginal"),
    ResizePreset("Instagram Story", 1080, 1920, FALSE, "KeepOriginal"),
    ResizePreset("Facebook Cover", 820, 312, FALSE, "KeepOriginal"),
    ResizePreset("Twitter Header", 1500, 500, FALSE, "KeepOriginal"),
    ResizePreset("YouTube Thumbnail", 1280, 720, FALSE, "KeepOriginal"),
    ResizePreset("HD 1080p", 1920, 1080, TRUE, "KeepOriginal"),
    ResizePreset("HD 720p", 1280, 720, TRUE, "KeepOriginal"),
    ResizePreset("Small Web", 800, 600, TRUE, "KeepOriginal"),
    ResizePreset("Thumbnail", 150, 150, TRUE, "KeepOriginal") >>

\* impl Default for ResizePreset
DefaultPreset == PRESETS[1]

(***************************************************************************)
(* The format resolver.                                                    *)
(***************************************************************************)
\* a format lookup that compares the extension as it is spelled
get_image_format_exact(path) ==
    LET ext == extension(path)
    IN  IF ext = None THEN Err("No file extension found")
        ELSE LET e == ext[1]
             IN  IF e \in {<<"j", "p", "g">>, <<"j", "p", "e", "g">>} THEN Ok("Jpeg")
                 ELSE IF e = <<"p", "n", "g">> THEN Ok("Png")
                 ELSE IF e = <<"g", "i", "f">> THEN Ok("Gif")
                 ELSE IF e = <<"b", "m", "p">> THEN Ok("Bmp")
                 ELSE IF e \in {<<"t", "i", "f", "f">>, <<"t", "i", "f">>} THEN Ok("Tiff")
                 ELSE IF e = <<"w", "e", "b", "p">> THEN Ok("WebP")
                 ELSE Err("Unsupported image format")

get_image_format(path) ==
    LET ext == extension(path)
    IN  IF ext = None THEN Err("No file extension found")
        ELSE LET e == to_lowercase(ext[1])
             IN  IF e \in {<<"j", "p", "g">>, <<"j", "p", "e", "g">>} THEN Ok("Jpeg")
                 ELSE IF e = <<"p", "n", "g">> THEN Ok("Png")
                 ELSE IF e = <<"g", "i", "f">> THEN Ok("Gif")
                 ELSE IF e = <<"b", "m", "p">> THEN Ok("Bmp")
                 ELSE IF e \in {<<"t", "i", "f", "f">>, <<"t", "i", "f">>} THEN Ok("Tiff")
                 ELSE IF e = <<"w", "e", "b", "p">> THEN Ok("WebP")
                 ELSE Err("Unsupported image format")

\* a format choice that is always read off the input path
get_output_format_by_path(output_format, input_path) == get_image_format(input_path)

get_output_format(output_format, input_path) ==
    CASE output_format = "KeepOriginal" -> get_image_format(input_path)
      [] output_format = "Jpeg" -> Ok("Jpeg")
      [] output_format = "Png"  -> Ok("Png")
      [] output_format = "Webp" -> Ok("WebP")
      [] output_format = "Bmp"  -> Ok("Bmp")
      [] output_format = "Tiff" -> Ok("Tiff")

\* an extension mapping that lower-cases the extension it keeps
get_extension_lowercased(output_format, input_path) ==
    CASE output_format = "KeepOriginal" ->
            Ok(IF extension(input_path) = None THEN << >>
               ELSE to_lowercase(extension(input_path)[1]))
      [] output_format = "Jpeg" -> Ok(<<"j", "p", "g">>)
      [] output_format = "Png"  -> Ok(<<"p", "n", "g">>)
      [] output_format = "Webp" -> Ok(<<"w", "e", "b", "p">>)
      [] output_format = "Bmp"  -> Ok(<<"b", "m", "p">>)
      [] output_format = "Tiff" -> Ok(<<"t", "i", "f", "f">>)

get_extension_for_format(output_format, input_path) ==
    CASE output_format = "KeepOriginal" ->
            Ok(IF extension(input_path) = None THEN << >> ELSE extension(input_path)[1])
      [] output_format = "Jpeg" -> Ok(<<"j", "p", "g">>)
      [] output_format = "Png"  -> Ok(<<"p", "n", "g">>)
      [] output_format = "Webp" -> Ok(<<"w", "e", "b", "p">>)
      [] output_format = "Bmp"  -> Ok(<<"b", "m", "p">>)
      [] output_format = "Tiff" -> Ok(<<"t", "i", "f", "f">>)

get_supported_extensions ==
    << <<"j", "p", "g">>, <<"j", "p", "e", "g">>, <<"p", "n", "g">>, <<"g", "i", "f">>,
       <<"b", "m", "p">>, <<"t", "i", "f", "f">>, <<"t", "i", "f">>, <<"w", "e", "b", "p">> >>

(***************************************************************************)
(* The paths drawn: names with every supported extension in three          *)
(* spellings, with extensions no codec has, and names without extension.   *)
(***************************************************************************)
Capitalised(s) == [i \in 1..Len(s) |-> IF i = 1 THEN CharUpper(s[i]) ELSE s[i]]

ExtensionPool ==
    LET sup == {get_supported_extensions[i] : i \in 1..Len(get_supported_extensions)}
    IN  sup \cup {to_uppercase(e) : e \in sup} \cup {Capitalised(e) : e \in sup}
            \cup {<<"t", "x", "t">>, <<"j", "p", "e">>, <<"p", "n", "g", "x">>, << >>}

NamePool ==
    {<<"a", ".">> \o e : e \in ExtensionPool}
        \cup {<<"a">>, <<".", "p", "n", "g">>, <<"a", ".", "b", ".", "g", "i", "f">>,
              <<".", ".">>, << >>}

PathPool == {PathOf("in", n) : n \in NamePool}

(***************************************************************************)
(* The single-image processor.  What the image library and the file        *)
(* system answer is drawn per call: x.decode is None when image::open      *)
(* fails and the decoded size otherwise, x.create and x.encode tell        *)
(* whether the output file can be created and the image encoded into it.   *)
(***************************************************************************)
Unit == "()"

save_image_with_format(format, x) ==
    IF format = "Jpeg"
    THEN IF ~x.create THEN [result |-> Err("Failed to create output file"), created |-> FALSE]
         ELSE IF ~x.encode THEN [result |-> Err("Failed to encode JPEG"), created |-> TRUE]
         ELSE [result |-> Ok(Unit), created |-> TRUE]
    ELSE IF ~x.create THEN [result |-> Err("Failed to save image"), created |-> FALSE]
         ELSE IF ~x.encode THEN [result |-> Err("Failed to save image"), created |-> TRUE]
         ELSE [result |-> Ok(Unit), created |-> TRUE]

\* resize_image from "Determine output format" on, after the resize call rs
FormatAndSave(rs, format, x) ==
    IF ~format.ok
    THEN [result |-> format, steps |-> <<"open", "dimensions", "resize", "format">>,
          resize |-> Some(rs), created |-> FALSE]
    ELSE [result |-> save_image_with_format(format.v[1], x).result,
          steps |-> <<"open", "dimensions", "resize", "format", "save">>,
          resize |-> Some(rs), created |-> save_image_with_format(format.v[1], x).created]

\* a processor that resolves the output format before it opens the image
resize_image_format_first(input_path, preset, x) ==
    IF ~get_output_format(preset.output_format, input_path).ok
    THEN [result |-> get_output_format(preset.output_format, input_path),
          steps |-> <<"format">>, resize |-> None, created |-> FALSE]
    ELSE IF x.decode = None
    THEN [result |-> Err("Failed to open image"), steps |-> <<"open">>,
          resize |-> None, created |-> FALSE]
    ELSE FormatAndSave(ResizeStep(x.decode[1][1], x.decode[1][2], preset.width, preset.height,
                                  preset.maintain_aspect_ratio),
                       get_output_format(preset.output_format, input_path), x)

\* the result, the steps run, the resize call made and whether the output
\* path was created
resize_image(input_path, preset, x) ==
    IF x.decode = None
    THEN [result |-> Err("Failed to open image"), steps |-> <<"open">>,
          resize |-> None, created |-> FALSE]
    ELSE FormatAndSave(ResizeStep(x.decode[1][1], x.decode[1][2], preset.width, preset.height,
                                  preset.maintain_aspect_ratio),
                       get_output_format(preset.output_format, input_path), x)

(***************************************************************************)
(* ProcessingStatus, the message type of the channel as well.              *)
(***************************************************************************)
Idle == [t |-> "Idle", a |-> 0, b |-> 0, m |-> ""]

Processing(current, total) == [t |-> "Processing", a |-> current, b |-> total, m |-> ""]

Completed(successful, failed) == [t |-> "Completed", a |-> successful, b |-> failed, m |-> ""]

Error(e) == [t |-> "Error", a |-> 0, b |-> 0, m |-> e]

(***************************************************************************)
(* The batch orchestrator, as the steps of the thread that runs it.  A run *)
(* holds the arguments of its batch_resize call, the place the thread is   *)
(* at, and what it has done: trace lists the progress callbacks and the    *)
(* files processed in the order they happened, sent the messages handed    *)
(* to tx.send.                                                             *)
(***************************************************************************)
NewRun(files, output_dir, preset) ==
    [files |-> files, output_dir |-> output_dir, preset |-> preset,
     pc |-> IF Len(files) = 0 THEN "final" ELSE "progress",
     index |-> 0, results |-> << >>, ret |-> None, trace |-> << >>, sent |-> << >>]

\* progress_callback(current, total) called
ProgressEvent(current, total) ==
    [ev |-> "progress", i |-> current, n |-> total, input |-> None, path |-> None, out |-> None]

\* resize_image called for the file at index: its two paths and what it did
FileEvent(index, total, input_path, output_path, out) ==
    [ev |-> "file", i |-> index, n |-> total,
     input |-> Some(input_path), path |-> Some(output_path), out |-> Some(out)]

\* Sender::send: queued while the receiver lives, an ignored error after
Send(ch, msg) == IF ch.rx THEN [ch EXCEPT !.q = Append(@, msg)] ELSE ch

\* the closure progress_callback of start_processing, called by batch_resize
ProgressCallback(run, current, total) ==
    [run EXCEPT !.trace = Append(@, ProgressEvent(current, total)),
                !.sent = Append(@, Processing(current, total))]

\* the output path with the preset's sides in the other order
OutputPathSwapped(output_dir, input_path, preset) ==
    join(output_dir,
         file_stem(input_path)[1] \o <<"_", "r", "e", "s", "i", "z", "e", "d", "_">>
             \o Dec(preset.height) \o <<"x">> \o Dec(preset.width) \o <<".">>
             \o get_extension_for_format(preset.output_format, input_path).v[1])

\* batch_resize: the output path of one input
OutputPath(output_dir, input_path, preset) ==
    join(output_dir,
         file_stem(input_path)[1] \o <<"_", "r", "e", "s", "i", "z", "e", "d", "_">>
             \o Dec(preset.width) \o <<"x">> \o Dec(preset.height) \o <<".">>
             \o get_extension_for_format(preset.output_format, input_path).v[1])

\* batch_resize: where the loop goes after the file at run.index
AfterFile(run) ==
    IF run.index + 1 < Len(run.files) THEN "progress" ELSE "final"

\* batch_resize: the run after resize_image has answered out for the file
\* at run.index, and the output paths created or truncated by it
Recorded(run, input_path, output_path, out) ==
    [run |-> [run EXCEPT !.results = Append(@, IF out.result.ok THEN Ok(output_path)
                                                ELSE out.result),
                         !.trace = Append(@, FileEvent(run.index, Len(run.files),
                                                       input_path, output_path, out)),
                         !.index = @ + 1,
                         !.pc = AfterFile(run)],
     creates |-> IF out.created THEN {output_path} ELSE {}]

\* the same, in a loop that gives up the batch at the first file that fails
RecordedOrAbort(run, input_path, output_path, out) ==
    IF out.result.ok
    THEN Recorded(run, input_path, output_path, out)
    ELSE [run |-> [run EXCEPT !.trace = Append(@, FileEvent(run.index, Len(run.files),
                                                            input_path, output_path, out)),
                              !.ret = Some(out.result), !.pc = "terminal"],
          creates |-> IF out.created THEN {output_path} ELSE {}]

\* a loop body that gives up the batch at the first file that fails
FileStepAbort(run, x) ==
    IF file_name(run.files[run.index + 1]) = None
    THEN [run |-> [run EXCEPT !.ret = Some(Err("Invalid file name")), !.pc = "terminal"],
          creates |-> {}]
    ELSE RecordedOrAbort(run, run.files[run.index + 1],
                         OutputPath(run.output_dir, run.files[run.index + 1], run.preset),
                         resize_image(run.files[run.index + 1], run.preset, x))

\* batch_resize: the loop body after the progress callback; the run after
\* it, and the output paths it created or truncated
FileStep(run, x) ==
    IF file_name(run.files[run.index + 1]) = None
    THEN [run |-> [run EXCEPT !.ret = Some(Err("Invalid file name")), !.pc = "terminal"],
          creates |-> {}]
    ELSE Recorded(run, run.files[run.index + 1],
                  OutputPath(run.output_dir, run.files[run.index + 1], run.preset),
                  resize_image(run.files[run.index + 1], run.preset, x))

\* a match that reports every file as successful
TerminalMessageAllSuccessful(ret) ==
    IF ret.ok THEN Completed(Len(ret.v[1]), 0) ELSE Error(ret.e[1])

\* start_processing, the thread's match on what batch_resize returned
TerminalMessage(ret) ==
    IF ret.ok
    THEN LET successful == Cardinality({i \in 1..Len(ret.v[1]) : ret.v[1][i].ok})
             failed == Len(ret.v[1]) - successful
         IN  Completed(successful, failed)
    ELSE Error(ret.e[1])

(***************************************************************************)
(* The application state and its handlers (src/src/app.rs).                *)
(***************************************************************************)
LogCap == 100

new ==
    [selected_files |-> << >>, output_directory |-> None,
     selected_preset |-> DefaultPreset,
     custom_width |-> <<"8", "0", "0">>, custom_height |-> <<"6", "0", "0">>,
     maintain_aspect_ratio |-> TRUE, use_custom_size |-> FALSE,
     processing_status |-> Idle, processing_receiver |-> None,
     log_messages |-> << >>]

add_log_message(a, message) ==
    LET l == Append(a.log_messages, message)
    IN  [a EXCEPT !.log_messages = IF Len(l) > LogCap THEN Tail(l) ELSE l]

select_files(a, files) ==
    add_log_message([a EXCEPT !.selected_files = files], <<"Selected ", Len(files), " files">>)

select_output_directory(a, dir) ==
    add_log_message([a EXCEPT !.output_directory = Some(dir)], <<"Output directory selected">>)

\* str::parse::<u32> of a text of at most nine characters
RECURSIVE DigitsValue(_)
DigitsValue(s) ==
    IF s = << >> THEN 0
    ELSE 10 * DigitsValue(SubSeq(s, 1, Len(s) - 1))
            + ((CHOOSE d \in 1..10 : Digits[d] = s[Len(s)]) - 1)

parse(s) ==
    LET body == IF s # << >> /\ s[1] = "+" THEN Tail(s) ELSE s
    IN  IF body = << >> \/ \E i \in 1..Len(body) : \A d \in 1..10 : Digits[d] # body[i]
        THEN None
        ELSE Some(DigitsValue(body))

unwrap_or(opt, default) == IF opt = None THEN default ELSE opt[1]

\* start_processing: the preset handed to the worker.  The Custom literal
\* names no output_format, so any is taken (of).
StartPreset(a, of) ==
    IF a.use_custom_size
    THEN ResizePreset("Custom", unwrap_or(parse(a.custom_width), 800),
                      unwrap_or(parse(a.custom_height), 600),
                      a.maintain_aspect_ratio, of)
    ELSE a.selected_preset

\* the text a drained message leaves in log_message
LogText(status) ==
    CASE status.t = "Processing" -> Some(<<"Processing ", status.a + 1, " of ", status.b>>)
      [] status.t = "Completed" ->
            Some(<<"Processing completed: ", status.a, " successful, ", status.b, " failed">>)
      [] status.t = "Error" -> Some(<<"Error: ", status.m>>)
      [] OTHER -> None

\* update_processing_status: the while-let loop over the messages pending
RECURSIVE Drain(_, _)
Drain(msgs, st) ==
    IF msgs = << >> THEN st
    ELSE LET status == Head(msgs)
         IN  Drain(Tail(msgs),
                   [new_status |-> Some(status),
                    should_clear_receiver |->
                        st.should_clear_receiver \/ status.t \in {"Completed", "Error"},
                    log_message |-> IF LogText(status) = None THEN st.log_message
                                    ELSE LogText(status)])

\* what try_recv yields until it fails: everything queued for the receiver held
Pending(a) ==
    IF a.processing_receiver = None THEN << >> ELSE chan[a.processing_receiver[1]].q

\* a poll that stops after the first message, if let in place of while let
update_processing_status_once(a) ==
    LET st == Drain(IF Pending(a) = << >> THEN << >> ELSE <<Head(Pending(a))>>,
                    [new_status |-> None, should_clear_receiver |-> FALSE,
                     log_message |-> None])
        a1 == IF st.log_message = None THEN a ELSE add_log_message(a, st.log_message[1])
        a2 == IF st.should_clear_receiver THEN [a1 EXCEPT !.processing_receiver = None] ELSE a1
    IN  IF st.new_status = None THEN a2 ELSE [a2 EXCEPT !.processing_status = st.new_status[1]]

update_processing_status(a) ==
    LET st == Drain(Pending(a), [new_status |-> None, should_clear_receiver |-> FALSE,
                                 log_message |-> None])
        a1 == IF st.log_message = None THEN a ELSE add_log_message(a, st.log_message[1])
        a2 == IF st.should_clear_receiver THEN [a1 EXCEPT !.processing_receiver = None] ELSE a1
    IN  IF st.new_status = None THEN a2 ELSE [a2 EXCEPT !.processing_status = st.new_status[1]]

\* a gate that opens again after an Error
can_process_after_error(a) ==
    /\ a.selected_files # << >>
    /\ a.output_directory # None
    /\ a.processing_status.t \in {"Idle", "Completed", "Error"}

\* update: the gate of the Start Processing button
can_process(a) ==
    /\ a.selected_files # << >>
    /\ a.output_directory # None
    /\ a.processing_status.t \in {"Idle", "Completed"}

vars == <<dimIn, dimOut, fmtIn, fmtOut, app, runs, chan, received, fs, inputs>>

pureVars == <<dimIn, dimOut, fmtIn, fmtOut>>

appVars == <<app, runs, chan, received, fs, inputs>>

(***************************************************************************)
(* The worker thread's steps.                                              *)
(***************************************************************************)
ImageSizes == {<<18, 7>>}

\* image::open fails, or it succeeds and then creating the output file
\* fails, or encoding into it fails, or all succeed
Externals ==
    {[decode |-> None, create |-> FALSE, encode |-> FALSE]}
        \cup [decode : {Some(d) : d \in ImageSizes},
              create : {TRUE}, encode : BOOLEAN]
        \cup [decode : {Some(d) : d \in ImageSizes},
              create : {FALSE}, encode : {FALSE}]

\* a progress callback that cannot go on once the receiver is gone
WorkerProgressUnwrap(r) ==
    /\ runs[r].pc = "progress"
    /\ chan[r].rx
    /\ runs' = [runs EXCEPT ![r] =
                  [ProgressCallback(@, @.index, Len(@.files)) EXCEPT !.pc = "file"]]
    /\ chan' = [chan EXCEPT ![r] = Send(@, Processing(runs[r].index, Len(runs[r].files)))]
    /\ UNCHANGED <<app, received, fs, inputs, pureVars>>

\* batch_resize calls progress_callback(index, len) at the head of the loop
WorkerProgress(r) ==
    /\ runs[r].pc = "progress"
    /\ runs' = [runs EXCEPT ![r] =
                  [ProgressCallback(@, @.index, Len(@.files)) EXCEPT !.pc = "file"]]
    /\ chan' = [chan EXCEPT ![r] = Send(@, Processing(runs[r].index, Len(runs[r].files)))]
    /\ UNCHANGED <<app, received, fs, inputs, pureVars>>

\* the outcomes drawn for the runs the GUI starts: the image does not
\* decode, or it decodes and is saved
GuiExternals == {x \in Externals : x.decode # None => x.create /\ x.encode}

\* run r and the file system after a loop body
Stepped(r, step) ==
    /\ runs' = [runs EXCEPT ![r] = step.run]
    /\ fs' = fs \cup step.creates

\* a loop body that reads the preset from the window, not from its own copy
WorkerFileLive(r, X) ==
    /\ runs[r].pc = "file"
    /\ \E x \in X :
          Stepped(r, FileStep([runs[r] EXCEPT
                                  !.preset = StartPreset(app, @.output_format)], x))
    /\ UNCHANGED <<app, chan, received, inputs, pureVars>>

\* batch_resize processes the file at index, with an outcome out of X
WorkerFile(r, X) ==
    /\ runs[r].pc = "file"
    /\ \E x \in X : Stepped(r, FileStep(runs[r], x))
    /\ UNCHANGED <<app, chan, received, inputs, pureVars>>

\* batch_resize calls progress_callback(len, len) and returns the results
WorkerFinal(r) ==
    /\ runs[r].pc = "final"
    /\ runs' = [runs EXCEPT ![r] =
                  [ProgressCallback(@, Len(@.files), Len(@.files))
                      EXCEPT !.ret = Some(Ok(runs[r].results)), !.pc = "terminal"]]
    /\ chan' = [chan EXCEPT ![r] = Send(@, Processing(Len(runs[r].files), Len(runs[r].files)))]
    /\ UNCHANGED <<app, received, fs, inputs, pureVars>>

\* the thread sends the terminal message and ends
WorkerTerminal(r) ==
    /\ runs[r].pc = "terminal"
    /\ LET msg == TerminalMessage(runs[r].ret[1])
       IN  /\ runs' = [runs EXCEPT ![r] = [@ EXCEPT !.sent = Append(@, msg), !.pc = "done"]]
           /\ chan' = [chan EXCEPT ![r] = Send(@, msg)]
    /\ UNCHANGED <<app, received, fs, inputs, pureVars>>

(***************************************************************************)
(* One frame of the GUI: update() polls the channel, then handles at most  *)
(* one input.                                                              *)
(***************************************************************************)
\* the channels after the poll of a frame that ends with the fields a
AfterPoll(a) ==
    IF app.processing_receiver = None THEN chan
    ELSE [chan EXCEPT ![app.processing_receiver[1]] =
             IF a.processing_receiver = app.processing_receiver
             THEN [@ EXCEPT !.q = << >>]
             ELSE [q |-> << >>, rx |-> FALSE]]

ReceivedAfterPoll ==
    IF app.processing_receiver = None THEN received
    ELSE [received EXCEPT ![app.processing_receiver[1]] = @ \o Pending(app)]

\* a frame without input
FramePoll ==
    /\ app' = update_processing_status(app)
    /\ chan' = AfterPoll(app')
    /\ received' = ReceivedAfterPoll
    /\ UNCHANGED <<runs, fs, inputs, pureVars>>

\* what the file dialog returns: the first n files of the folder
DialogFiles ==
    LET folder == <<PathOf("in", <<"a", ".", "p", "n", "g">>),
                    PathOf("in", <<"b", ".", "J", "P", "G">>),
                    PathOf("in", <<"c", ".", "g", "i", "f">>),
                    PathOf("in", <<"d", ".", "b", "m", "p">>)>>
    IN  {SubSeq(folder, 1, n) : n \in 1..MaxFiles}

FrameSelectFiles ==
    /\ inputs < MaxInputs
    /\ \E files \in DialogFiles :
          app' = select_files(update_processing_status(app), files)
    /\ chan' = AfterPoll(app')
    /\ received' = ReceivedAfterPoll
    /\ inputs' = inputs + 1
    /\ UNCHANGED <<runs, fs, pureVars>>

FrameSelectOutputDirectory ==
    /\ inputs < MaxInputs
    /\ app' = select_output_directory(update_processing_status(app), "out")
    /\ chan' = AfterPoll(app')
    /\ received' = ReceivedAfterPoll
    /\ inputs' = inputs + 1
    /\ UNCHANGED <<runs, fs, pureVars>>

\* the radio buttons Use Preset / Custom Size
FrameUseCustomSize ==
    /\ inputs < MaxInputs
    /\ \E b \in BOOLEAN :
          app' = [update_processing_status(app) EXCEPT !.use_custom_size = b]
    /\ chan' = AfterPoll(app')
    /\ received' = ReceivedAfterPoll
    /\ inputs' = inputs + 1
    /\ UNCHANGED <<runs, fs, pureVars>>

\* the preset combo box, shown unless Custom Size is chosen
FrameSelectPreset ==
    /\ inputs < MaxInputs
    /\ ~app.use_custom_size
    /\ \E i \in 1..NumPresets :
          /\ i <= Len(PRESETS)
          /\ app' = [update_processing_status(app) EXCEPT !.selected_preset = PRESETS[i]]
    /\ chan' = AfterPoll(app')
    /\ received' = ReceivedAfterPoll
    /\ inputs' = inputs + 1
    /\ UNCHANGED <<runs, fs, pureVars>>

CustomTexts == {<<"6", "4", "0">>, <<"0">>, <<"x">>}

\* the custom width, height and aspect widgets, shown with Custom Size
FrameEditCustom ==
    /\ inputs < MaxInputs
    /\ app.use_custom_size
    /\ \/ \E w \in CustomTexts :
             app' = [update_processing_status(app) EXCEPT !.custom_width = w]
       \/ \E h \in CustomTexts :
             app' = [update_processing_status(app) EXCEPT !.custom_height = h]
       \/ \E b \in BOOLEAN :
             app' = [update_processing_status(app) EXCEPT !.maintain_aspect_ratio = b]
    /\ chan' = AfterPoll(app')
    /\ received' = ReceivedAfterPoll
    /\ inputs' = inputs + 1
    /\ UNCHANGED <<runs, fs, pureVars>>

\* start_processing on the fields a, with the receiver of run r stored
start_processing(a, r) ==
    IF a.selected_files = << >> THEN add_log_message(a, <<"No files selected">>)
    ELSE IF a.output_directory = None
         THEN add_log_message(a, <<"No output directory selected">>)
    ELSE [a EXCEPT !.processing_receiver = Some(r)]

\* a click on Start Processing, enabled by can_process
FrameStartProcessing ==
    /\ inputs < MaxInputs
    /\ Len(runs) < MaxRuns
    /\ LET a == update_processing_status(app)
           r == Len(runs) + 1
       IN  /\ can_process(a)
           /\ app' = start_processing(a, r)
           /\ \E of \in OutputFormat :
                 runs' = Append(runs, NewRun(a.selected_files, a.output_directory[1],
                                             StartPreset(a, of)))
           \* the receiver held before is dropped when the new one is stored
           /\ chan' = Append([i \in 1..Len(chan) |->
                                 IF Some(i) = app.processing_receiver
                                 THEN [q |-> << >>, rx |-> FALSE] ELSE chan[i]],
                             [q |-> << >>, rx |-> TRUE])
           /\ received' = Append(ReceivedAfterPoll, << >>)
    /\ inputs' = inputs + 1
    /\ UNCHANGED <<fs, pureVars>>

Init ==
    /\ app = new
    /\ runs = << >>
    /\ chan = << >>
    /\ received = << >>
    /\ fs = {}
    /\ inputs = 0
    /\ dimIn = None /\ dimOut = None /\ fmtIn = None /\ fmtOut = None

Next ==
    \/ FramePoll
    \/ FrameSelectFiles
    \/ FrameSelectOutputDirectory
    \/ FrameUseCustomSize
    \/ FrameSelectPreset
    \/ FrameEditCustom
    \/ FrameStartProcessing
    \/ \E r \in 1..Len(runs) : WorkerProgress(r)
    \/ \E r \in 1..Len(runs) : WorkerFile(r, GuiExternals)
    \/ \E r \in 1..Len(runs) : WorkerFinal(r)
    \/ \E r \in 1..Len(runs) : WorkerTerminal(r)

Spec == Init /\ [][Next]_vars

\* the place each worker thread is at; every step of a thread changes it
Places == [r \in 1..Len(runs) |-> runs[r].pc]

\* a step of the worker thread of run r
Worker(r) ==
    \/ WorkerProgress(r)
    \/ WorkerFile(r, GuiExternals)
    \/ WorkerFinal(r)
    \/ WorkerTerminal(r)

\* the same with every spawned thread scheduled again and again, and every
\* call it makes into the image library returning
SpecLive == Spec /\ \A r \in 1..MaxRuns : WF_Places(r <= Len(runs) /\ Worker(r))

(***************************************************************************)
(* batch_resize called directly, on a drawn file list, directory and       *)
(* preset, with a callback that sends into a channel nobody polls.         *)
(***************************************************************************)
BatchPaths ==
    {PathOf("in", <<"a", ".", "p", "n", "g">>), PathOf("in", <<"a", ".", "J", "P", "G">>),
     PathOf("in", <<"n", "o", "e", "x", "t">>), PathOf("in", <<".", ".">>)}

BatchFiles == UNION {[1..n -> BatchPaths] : n \in 0..MaxBatchFiles}

InitBatch ==
    /\ app = new
    /\ \E files \in BatchFiles, i \in 1..Len(PRESETS) :
          runs = <<NewRun(files, "out", PRESETS[i])>>
    /\ chan = <<[q |-> << >>, rx |-> TRUE]>>
    /\ received = << << >> >>
    /\ fs = {}
    /\ inputs = 0
    /\ dimIn = None /\ dimOut = None /\ fmtIn = None /\ fmtOut = None

NextBatch ==
    \/ WorkerProgress(1)
    \/ WorkerFile(1, Externals)
    \/ WorkerFinal(1)
    \/ WorkerTerminal(1)

SpecBatch == InitBatch /\ [][NextBatch]_vars

(***************************************************************************)
(* One call of the dimension resolver, on drawn arguments.                 *)
(***************************************************************************)
InitResolve ==
    /\ dimIn \in [ow : 0..MaxOrig, oh : 0..MaxOrig,
                  tw : 0..MaxTarget, th : 0..MaxTarget, maintain : BOOLEAN]
    /\ dimOut = None
    /\ fmtIn = None
    /\ fmtOut = None
    /\ app = new /\ runs = << >> /\ chan = << >> /\ received = << >> /\ fs = {}
    /\ inputs = 0

Resolve ==
    /\ dimOut = None
    /\ dimOut' = Some(ResizeStep(dimIn.ow, dimIn.oh, dimIn.tw, dimIn.th, dimIn.maintain))
    /\ UNCHANGED <<dimIn, fmtIn, fmtOut, appVars>>

NextResolve == Resolve

SpecResolve == InitResolve /\ [][NextResolve]_vars

(***************************************************************************)
(* One call of the format resolver and of its companion, on a drawn        *)
(* format choice and path.                                                 *)
(***************************************************************************)
InitFormat ==
    /\ fmtIn \in {Some([choice |-> c, path |-> p]) : c \in OutputFormat, p \in PathPool}
    /\ fmtOut = None
    /\ dimIn = None
    /\ dimOut = None
    /\ app = new /\ runs = << >> /\ chan = << >> /\ received = << >> /\ fs = {}
    /\ inputs = 0

ResolveFormat ==
    /\ fmtOut = None
    /\ fmtOut' = Some([format |-> get_output_format(fmtIn[1].choice, fmtIn[1].path),
                       ext |-> get_extension_for_format(fmtIn[1].choice, fmtIn[1].path)])
    /\ UNCHANGED <<fmtIn, dimIn, dimOut, appVars>>

NextFormat == ResolveFormat

SpecFormat == InitFormat /\ [][NextFormat]_vars

(***************************************************************************)
(* Properties of the batch orchestrator.                                   *)
(***************************************************************************)
AllNamed(files) == \A i \in 1..Len(files) : file_name(files[i]) # None

\* the resize_image calls of a run, in the order they were made
FileEvents(run) == SelectSeq(run.trace, LAMBDA e : e.ev = "file")

\* C1: when batch_resize returns for a list of n files that all have a file
\* name, it returns a list of exactly n outcomes; resize_image has been
\* called once per input, in list order, whatever failed before; and entry
\* i is Ok(the output path of input i) if that call succeeded and its error
\* if it failed.
C1_OutcomePerInput ==
    \A r \in 1..Len(runs) :
        LET run == runs[r]
            calls == FileEvents(run)
        IN  (run.ret # None /\ AllNamed(run.files)) =>
                /\ run.ret[1].ok
                /\ Len(run.ret[1].v[1]) = Len(run.files)
                /\ Len(calls) = Len(run.files)
                /\ \A i \in 1..Len(run.files) :
                      /\ calls[i].i = i - 1
                      /\ calls[i].input = Some(run.files[i])
                      /\ run.ret[1].v[1][i] =
                            IF calls[i].out[1].result.ok
                            THEN Ok(calls[i].path[1])
                            ELSE calls[i].out[1].result

\* a batch of two named files has returned; the first failed, the second
\* was processed all the same and succeeded
C1_Witness ==
    \E r \in 1..Len(runs) :
        /\ runs[r].ret # None
        /\ Len(runs[r].files) = 2
        /\ AllNamed(runs[r].files)
        /\ runs[r].ret[1].ok
        /\ ~runs[r].ret[1].v[1][1].ok
        /\ runs[r].ret[1].v[1][2].ok

\* C2: batch_resize over n files alternates progress callbacks and files in
\* list order: its k-th callback is (k-1, n) and comes before file k-1 is
\* processed and after file k-2's outcome; and when it returns it has made
\* exactly n+1 callbacks, the last one (n, n) after the last file.
C2_ProgressCalls ==
    \A r \in 1..Len(runs) :
        LET run == runs[r]
            n == Len(run.files)
        IN  /\ \A k \in 1..Len(run.trace) :
                  IF k % 2 = 1
                  THEN /\ run.trace[k].ev = "progress"
                       /\ run.trace[k].i = (k - 1) \div 2
                       /\ run.trace[k].n = n
                  ELSE /\ run.trace[k].ev = "file"
                       /\ run.trace[k].i = (k \div 2) - 1
            /\ run.ret # None => Len(run.trace) = 2 * n + 1

\* batch_resize has returned after fewer than n+1 callbacks
C2_Witness ==
    \E r \in 1..Len(runs) :
        /\ runs[r].ret # None
        /\ Cardinality({k \in 1..Len(runs[r].trace) : runs[r].trace[k].ev = "progress"})
              < Len(runs[r].files) + 1

\* C3: what the consumer has received from a run's channel is always a
\* prefix of Processing{0,n}, ..., Processing{n,n}, terminal message; and
\* once the worker has ended and nothing it sent is pending, it is all of
\* that sequence, ending with the one terminal message.
C3_MessageSequence ==
    \A r \in 1..Len(runs) :
        LET n == Len(runs[r].files)
            got == received[r]
        IN  /\ Len(got) <= n + 2
            /\ \A k \in 1..Len(got) :
                  IF k <= n + 1
                  THEN got[k] = Processing(k - 1, n)
                  ELSE got[k].t \in {"Completed", "Error"}
            /\ (runs[r].pc = "done" /\ chan[r].q = << >>) => Len(got) = n + 2

\* a worker has ended with its receiver dropped before the consumer took
\* anything from it
C3_Witness ==
    \E r \in 1..Len(runs) :
        /\ runs[r].pc = "done"
        /\ ~chan[r].rx
        /\ received[r] = << >>
        /\ app.processing_receiver # Some(r)

\* C4: when batch_resize has returned an outcome list, the worker's last
\* message is Completed{successful, failed} with the numbers of Ok and of
\* Err entries, which add up to the number of input files, the failed ones
\* being the files resize_image failed on; an Error message is sent only
\* when batch_resize returned no outcome list.
C4_CompletedCounts ==
    \A r \in 1..Len(runs) :
        LET run == runs[r]
        IN  /\ (run.pc = "done" /\ run.ret[1].ok) =>
                  LET results == run.ret[1].v[1]
                      oks  == {i \in 1..Len(results) : results[i].ok}
                      errs == {i \in 1..Len(results) : ~results[i].ok}
                      calls == FileEvents(run)
                  IN  /\ run.sent[Len(run.sent)] = Completed(Cardinality(oks), Cardinality(errs))
                      /\ Cardinality(oks) + Cardinality(errs) = Len(run.files)
                      /\ errs = {i \in 1..Len(calls) : ~calls[i].out[1].result.ok}
            /\ \A k \in 1..Len(run.sent) :
                  run.sent[k].t = "Error" => (run.ret # None /\ ~run.ret[1].ok)

\* a worker has ended a batch of two files, one failed and one successful,
\* with Completed{1, 1}
C4_Witness ==
    \E r \in 1..Len(runs) :
        /\ runs[r].pc = "done"
        /\ Len(runs[r].files) = 2
        /\ Len(FileEvents(runs[r])) = 2
        /\ \E k \in 1..2 : ~FileEvents(runs[r])[k].out[1].result.ok
        /\ runs[r].sent[Len(runs[r].sent)] = Completed(1, 1)

\* C10: every output path batch_resize hands to resize_image is
\* {output_dir}/{stem}_resized_{W}x{H}.{ext}, with the stem of that input,
\* the width and height the preset asks for, and the extension
\* get_extension_for_format gives for the preset's format and that input.
C10_OutputPath ==
    \A r \in 1..Len(runs) :
        \A k \in 1..Len(runs[r].trace) :
            LET e == runs[r].trace[k]
                preset == runs[r].preset
            IN  e.ev = "file" =>
                   /\ e.path[1].dir = runs[r].output_dir
                   /\ e.path[1].name =
                         file_stem(e.input[1])[1]
                             \o <<"_", "r", "e", "s", "i", "z", "e", "d", "_">>
                             \o Dec(preset.width) \o <<"x">> \o Dec(preset.height)
                             \o <<".">>
                             \o get_extension_for_format(preset.output_format, e.input[1]).v[1]

\* a.png was resized under the 340x570 preset to another size than 340x570
\* and written to a_resized_340x570.png
C10_Witness ==
    \E r \in 1..Len(runs) :
        \E k \in 1..Len(runs[r].trace) :
            LET e == runs[r].trace[k]
            IN  /\ e.ev = "file"
                /\ e.out[1].result.ok
                /\ runs[r].preset.width = 340 /\ runs[r].preset.height = 570
                /\ e.out[1].resize[1].size # <<BigOf(340), BigOf(570)>>
                /\ e.path[1] \in fs
                /\ e.path[1].name =
                      <<"a", "_", "r", "e", "s", "i", "z", "e", "d", "_",
                        "3", "4", "0", "x", "5", "7", "0", ".", "p", "n", "g">>

(***************************************************************************)
(* Properties of the dimension resolver.                                   *)
(***************************************************************************)
\* a / b rounded to the nearest integer, halves away from zero, for a >= 0
\* and b > 0
RoundedQuotient(a, b) == (2 * a + b) \div (2 * b)

\* C5: with maintain_aspect_ratio and ow, oh > 0: if tw <= th the width is
\* tw and the height is tw*oh/ow rounded to the nearest integer, halves
\* away from zero; otherwise the height is th and the width is th*ow/oh
\* rounded so; whenever the rounded value is at least 1.
C5_AspectRounding ==
    (dimOut # None /\ dimIn.maintain /\ dimIn.ow > 0 /\ dimIn.oh > 0) =>
        IF dimIn.tw <= dimIn.th
        THEN LET h == RoundedQuotient(dimIn.tw * dimIn.oh, dimIn.ow)
             IN  h >= 1 => dimOut[1].size = <<BigOf(dimIn.tw), BigOf(h)>>
        ELSE LET w == RoundedQuotient(dimIn.th * dimIn.ow, dimIn.oh)
             IN  w >= 1 => dimOut[1].size = <<BigOf(w), BigOf(dimIn.th)>>

\* an 18x7 image resolved for 9x9 comes out 9x3, though 9*7/18 is 3.5
C5_Witness ==
    /\ dimIn = [ow |-> 18, oh |-> 7, tw |-> 9, th |-> 9, maintain |-> TRUE]
    /\ dimOut # None
    /\ dimOut[1].size = <<BigOf(9), BigOf(3)>>

\* C6: without maintain_aspect_ratio the size is (target_width,
\* target_height) for every original size, and resize_exact is the
\* operation called with it.
C6_ExactSize ==
    (dimOut # None /\ ~dimIn.maintain) =>
        /\ dimOut[1].op = "resize_exact"
        /\ dimOut[1].size = <<BigOf(dimIn.tw), BigOf(dimIn.th)>>

\* an 18x7 image resolved for 9x9 without maintain_aspect_ratio comes out
\* 9x9 by resize_exact
C6_Witness ==
    /\ dimIn = [ow |-> 18, oh |-> 7, tw |-> 9, th |-> 9, maintain |-> FALSE]
    /\ dimOut # None
    /\ dimOut[1] = [op |-> "resize_exact", size |-> <<BigOf(9), BigOf(9)>>]

\* C7: with maintain_aspect_ratio, resolving for a source whose width or
\* height is 0 ends in a DegenerateImage error and returns no size.
C7_DegenerateImage ==
    (dimOut # None /\ dimIn.maintain /\ (dimIn.ow = 0 \/ dimIn.oh = 0)) =>
        /\ "size" \notin DOMAIN dimOut[1]
        /\ dimOut[1].op = "DegenerateImage"

\* a 0x5 image resolved for 3x4 comes out 3 x u32::MAX
C7_Witness ==
    /\ dimIn = [ow |-> 0, oh |-> 5, tw |-> 3, th |-> 4, maintain |-> TRUE]
    /\ dimOut # None
    /\ dimOut[1].size = <<BigOf(3), U32_MAX>>

\* C8: with maintain_aspect_ratio and ow, oh, tw, th > 0 the side the
\* resolver derives is at least 1.
C8_DerivedSideAtLeastOne ==
    (dimOut # None /\ dimIn.maintain
        /\ dimIn.ow > 0 /\ dimIn.oh > 0 /\ dimIn.tw > 0 /\ dimIn.th > 0) =>
        IF dimIn.tw <= dimIn.th
        THEN BigLe(BigOne, dimOut[1].size[2])
        ELSE BigLe(BigOne, dimOut[1].size[1])

\* a 3x1 image resolved for 1x1 comes out 1x0
C8_Witness ==
    /\ dimIn = [ow |-> 3, oh |-> 1, tw |-> 1, th |-> 1, maintain |-> TRUE]
    /\ dimOut # None
    /\ dimOut[1].size = <<BigOf(1), BigZero>>

(***************************************************************************)
(* Properties of the format resolver.                                      *)
(***************************************************************************)
SameIgnoringCase(a, b) ==
    /\ Len(a) = Len(b)
    /\ \A i \in 1..Len(a) : CharLower(a[i]) = CharLower(b[i])

\* whether the path has an extension that is one of names, case aside
HasExtension(path, names) ==
    /\ extension(path) # None
    /\ \E n \in names : SameIgnoringCase(extension(path)[1], n)

\* C9: under KeepOriginal the format resolver maps the extension of the
\* input path, case aside, jpg|jpeg to JPEG, png to PNG, gif to GIF, bmp to
\* BMP, tiff|tif to TIFF and webp to WEBP, and fails for every other
\* extension and for a path without one; it succeeds exactly for the
\* extensions get_supported_extensions lists.
C9_KeepOriginalMapping ==
    (fmtOut # None /\ fmtIn[1].choice = "KeepOriginal") =>
        LET path == fmtIn[1].path
            res == fmtOut[1].format
            supported == {get_supported_extensions[i] :
                             i \in 1..Len(get_supported_extensions)}
        IN  /\ HasExtension(path, {<<"j", "p", "g">>, <<"j", "p", "e", "g">>})
                   => res = Ok("Jpeg")
            /\ HasExtension(path, {<<"p", "n", "g">>}) => res = Ok("Png")
            /\ HasExtension(path, {<<"g", "i", "f">>}) => res = Ok("Gif")
            /\ HasExtension(path, {<<"b", "m", "p">>}) => res = Ok("Bmp")
            /\ HasExtension(path, {<<"t", "i", "f", "f">>, <<"t", "i", "f">>})
                   => res = Ok("Tiff")
            /\ HasExtension(path, {<<"w", "e", "b", "p">>}) => res = Ok("WebP")
            /\ res.ok <=> HasExtension(path, supported)

\* a.JPG resolved to JPEG under KeepOriginal
C9_Witness ==
    /\ fmtOut # None
    /\ fmtIn[1].choice = "KeepOriginal"
    /\ fmtIn[1].path.name = <<"a", ".", "J", "P", "G">>
    /\ fmtOut[1].format = Ok("Jpeg")

(***************************************************************************)
(* Properties of a batch with a path that has no file name.                *)
(***************************************************************************)
\* C11: when the worker of a batch with a path without file name at index
\* i has ended, batch_resize has returned the list of all n outcomes with
\* an error in slot i, every other file has been processed, the final
\* progress callback (n, n) has been made, and the terminal message is
\* Completed.
C11_NamelessPathPerFile ==
    \A r \in 1..Len(runs) :
        LET run == runs[r]
            n == Len(run.files)
        IN  (run.pc = "done" /\ ~AllNamed(run.files)) =>
                /\ run.ret[1].ok
                /\ Len(run.ret[1].v[1]) = n
                /\ \A i \in 1..n : file_name(run.files[i]) = None => ~run.ret[1].v[1][i].ok
                /\ \A i \in 1..n :
                      file_name(run.files[i]) # None =>
                          \E k \in 1..Len(run.trace) :
                              run.trace[k].ev = "file" /\ run.trace[k].i = i - 1
                /\ run.trace[Len(run.trace)] = ProgressEvent(n, n)
                /\ run.sent[Len(run.sent)].t = "Completed"

\* the worker of the batch "..", a.png has ended with an Error message
\* after one progress callback, without processing a.png
C11_Witness ==
    \E r \in 1..Len(runs) :
        /\ runs[r].pc = "done"
        /\ Len(runs[r].files) = 2
        /\ file_name(runs[r].files[1]) = None
        /\ file_name(runs[r].files[2]) # None
        /\ runs[r].ret[1] = Err("Invalid file name")
        /\ runs[r].trace = <<ProgressEvent(0, 2)>>
        /\ runs[r].sent = <<Processing(0, 2), Error("Invalid file name")>>

(***************************************************************************)
(* Properties of the explicit format choices and of the extension kept.    *)
(***************************************************************************)
ExplicitFormats == OutputFormat \ {"KeepOriginal"}

\* the codec an explicit choice names
CodecOf(choice) ==
    CASE choice = "Jpeg" -> "Jpeg"
      [] choice = "Png"  -> "Png"
      [] choice = "Webp" -> "WebP"
      [] choice = "Bmp"  -> "Bmp"
      [] choice = "Tiff" -> "Tiff"

\* C12: for an explicit format choice neither the format resolver nor the
\* extension mapping fails, the codec is the one the choice names, and
\* both results are what every other path of the pool gives for that
\* choice, whatever its extension.
C12_ExplicitChoice ==
    (fmtOut # None /\ fmtIn[1].choice \in ExplicitFormats) =>
        /\ fmtOut[1].format = Ok(CodecOf(fmtIn[1].choice))
        /\ fmtOut[1].ext.ok
        /\ \A q \in PathPool :
              /\ get_output_format(fmtIn[1].choice, q) = fmtOut[1].format
              /\ get_extension_for_format(fmtIn[1].choice, q) = fmtOut[1].ext

\* a.txt resolved under the Jpeg choice to the JPEG codec and to "jpg"
C12_Witness ==
    /\ fmtOut # None
    /\ fmtIn[1].choice = "Jpeg"
    /\ fmtIn[1].path.name = <<"a", ".", "t", "x", "t">>
    /\ fmtOut[1].format = Ok("Jpeg")
    /\ fmtOut[1].ext = Ok(<<"j", "p", "g">>)

\* whether name ends with a "." followed by e, e holding no "."
EndsWithExtension(name, e) ==
    /\ e # << >>
    /\ \A i \in 1..Len(e) : e[i] # "."
    /\ Len(name) > Len(e) + 1
    /\ SubSeq(name, Len(name) - Len(e), Len(name)) = <<".">> \o e

\* the codec a lower-case extension names
CodecOfExtension(e) ==
    CASE e \in {<<"j", "p", "g">>, <<"j", "p", "e", "g">>} -> "Jpeg"
      [] e = <<"p", "n", "g">> -> "Png"
      [] e = <<"g", "i", "f">> -> "Gif"
      [] e = <<"b", "m", "p">> -> "Bmp"
      [] e \in {<<"t", "i", "f", "f">>, <<"t", "i", "f">>} -> "Tiff"
      [] e = <<"w", "e", "b", "p">> -> "WebP"
      [] OTHER -> "none"

\* C13: under KeepOriginal the extension mapping never fails and gives the
\* extension of the input path as it is spelled there (nothing only when
\* the name has no "." past its first character or ends with one), and
\* whenever the format resolver gives a codec for that path it is the
\* codec the lower-cased extension names, so the extension of the output
\* file names the codec it is encoded with.
C13_ExtensionVerbatim ==
    (fmtOut # None /\ fmtIn[1].choice = "KeepOriginal") =>
        /\ fmtOut[1].ext.ok
        /\ fmtOut[1].ext.v[1] # << >> => EndsWithExtension(fmtIn[1].path.name, fmtOut[1].ext.v[1])
        /\ fmtOut[1].ext.v[1] = << >> =>
              LET name == fmtIn[1].path.name
              IN  \/ \A i \in 2..Len(name) : name[i] # "."
                  \/ name[Len(name)] = "."
        /\ fmtOut[1].format.ok =>
              /\ fmtOut[1].ext.v[1] # << >>
              /\ fmtOut[1].format.v[1] =
                    CodecOfExtension([i \in 1..Len(fmtOut[1].ext.v[1]) |->
                                         CharLower(fmtOut[1].ext.v[1][i])])

\* a.JPG keeps the extension "JPG" and is encoded as JPEG
C13_Witness ==
    /\ fmtOut # None
    /\ fmtIn[1].choice = "KeepOriginal"
    /\ fmtIn[1].path.name = <<"a", ".", "J", "P", "G">>
    /\ fmtOut[1].ext = Ok(<<"J", "P", "G">>)
    /\ fmtOut[1].format = Ok("Jpeg")

(***************************************************************************)
(* Properties of the worker threads and of the polling consumer.           *)
(***************************************************************************)
\* the worker of run r has sent its terminal message and ended, after
\* resize_image was called for every file of its list
RanToCompletion(r) ==
    /\ r <= Len(runs)
    /\ runs[r].pc = "done"
    /\ runs[r].sent[Len(runs[r].sent)].t \in {"Completed", "Error"}
    /\ AllNamed(runs[r].files) => Len(FileEvents(runs[r])) = Len(runs[r].files)

\* C14: every worker spawned eventually sends its terminal message and
\* ends, having gone through its whole file list, whatever the initiator
\* does meanwhile: polls, changes of the selections, another start, the
\* receiver dropped or replaced.
C14_RunToCompletion ==
    \A r \in 1..MaxRuns : (r <= Len(runs)) ~> RanToCompletion(r)

\* the first worker has gone through its two files and ended although its
\* receiver was replaced by a second start before it sent anything
C14_Witness ==
    /\ Len(runs) = 2
    /\ RanToCompletion(1)
    /\ Len(runs[1].files) = 2
    /\ ~chan[1].rx
    /\ received[1] = << >>
    /\ app.processing_receiver = Some(2)


(***************************************************************************)
(* C15.  The poll of a frame.                                              *)
(***************************************************************************)
\* a frame of the GUI, with or without an input handled after the poll
Frame == FramePoll \/ inputs' # inputs

Last(s) == s[Len(s)]

\* C15: a poll with nothing pending leaves processing_status, the receiver
\* and the log as they were; a poll with one or more messages pending takes
\* all of them off the channel and leaves processing_status equal to the
\* last one taken.
C15_PollDrainsAll ==
    [][/\ FramePoll /\ Pending(app) = << >> =>
              /\ app'.processing_status = app.processing_status
              /\ app'.processing_receiver = app.processing_receiver
              /\ app'.log_messages = app.log_messages
       /\ Frame /\ Pending(app) # << >> =>
              LET r == app.processing_receiver[1]
              IN  /\ app'.processing_status = Last(Pending(app))
                  /\ chan'[r].q = << >>
                  /\ received'[r] = received[r] \o Pending(app)]_vars

\* one poll took every message of a run of two files: the log holds the two
\* selections and the single line that poll left
C15_Witness ==
    /\ Len(runs) = 1
    /\ Len(runs[1].files) = 2
    /\ runs[1].pc = "done"
    /\ received[1] = runs[1].sent
    /\ Len(received[1]) = 4
    /\ app.processing_status = Last(received[1])
    /\ Len(app.log_messages) = 3


(***************************************************************************)
(* C16.  When the receiver is discarded.                                   *)
(***************************************************************************)
Terminal(status) == status.t \in {"Completed", "Error"}

\* the terminal message of run r has been taken off the channel by a poll
TerminalDrained(r) == \E i \in 1..Len(received[r]) : Terminal(received[r][i])

\* a poll discards the receiver it holds exactly when a terminal message is
\* among the messages it takes
DiscardOnTerminal ==
    FramePoll /\ app.processing_receiver # None =>
        IF \E i \in 1..Len(Pending(app)) : Terminal(Pending(app)[i])
        THEN app'.processing_receiver = None
        ELSE app'.processing_receiver = app.processing_receiver

\* the receiver of a run whose terminal message has not been taken is held
RetainedUntilTerminal ==
    \A r \in 1..Len(runs) :
        ~TerminalDrained(r) => chan[r].rx /\ app.processing_receiver = Some(r)

\* once the terminal message of the last run started has been taken, a poll
\* leaves processing_status as it is
QuietAfterTerminal ==
    FramePoll /\ runs # << >> /\ TerminalDrained(Len(runs)) =>
        app'.processing_status = app.processing_status

\* C16: the receiver is discarded in the poll that takes a terminal message
\* and not before: until the terminal message of a run has been taken the
\* receiver of that run is held, and after it has been taken no poll
\* changes processing_status until another run is started.
C16_ReceiverDiscard ==
    [][DiscardOnTerminal /\ RetainedUntilTerminal' /\ QuietAfterTerminal]_vars

\* the receiver of the first run is gone although none of its messages,
\* the terminal one included, was ever taken
C16_Witness ==
    /\ Len(runs) = 2
    /\ runs[1].pc = "done"
    /\ Terminal(Last(runs[1].sent))
    /\ received[1] = << >>
    /\ ~chan[1].rx

\* the two statements about the poll alone
C16_PollOnly == [][DiscardOnTerminal /\ QuietAfterTerminal]_vars


(***************************************************************************)
(* C17.  The worker works on what was selected when the run was started.   *)
(***************************************************************************)
\* the arguments the thread of run r was given
Arguments(run) == <<run.files, run.output_dir, run.preset>>

\* the file event e is what the file at e.i of the run's own list gives
\* with the run's own output directory and preset
FromArguments(run, e) ==
    /\ e.input = Some(run.files[e.i + 1])
    /\ e.path = Some(OutputPath(run.output_dir, run.files[e.i + 1], run.preset))
    /\ \E x \in GuiExternals : e.out = Some(resize_image(run.files[e.i + 1], run.preset, x))

\* C17: a run is given the files, the output directory and the preset
\* selected at the moment of the start; these never change afterwards,
\* whatever is selected or typed while the run is in progress, and every
\* file the worker processes, its output path and its target size are
\* those of the run's own arguments.
C17_SnapshotAtStart ==
    [][/\ \A r \in 1..Len(runs) : Arguments(runs'[r]) = Arguments(runs[r])
       /\ Len(runs') > Len(runs) =>
             /\ Last(runs').files = app.selected_files
             /\ Some(Last(runs').output_dir) = app.output_directory
             /\ \E of \in OutputFormat : Last(runs').preset = StartPreset(app, of)
       /\ \A r \in 1..Len(runs) :
             Len(runs'[r].trace) > Len(runs[r].trace) /\ Last(runs'[r].trace).ev = "file" =>
                 /\ FromArguments(runs'[r], Last(runs'[r].trace))
                 /\ Last(runs'[r].trace).i = Len(FileEvents(runs[r]))]_vars

\* the first of two files has been processed, one is to come, and the
\* files selected in the window are no longer those of the run
C17_Witness ==
    /\ Len(runs) = 1
    /\ Len(runs[1].files) = 2
    /\ Len(FileEvents(runs[1])) = 1
    /\ runs[1].pc \in {"progress", "file"}
    /\ app.selected_files # runs[1].files


(***************************************************************************)
(* C18.  The preset a run is started with.  The window as the user may     *)
(* have left it: a file and an output directory selected, any preset of    *)
(* the catalog, Custom Size chosen or not, any text in the two fields.     *)
(***************************************************************************)
StartTexts == CustomTexts \cup {<<"8", "0", "0">>, << >>, <<"+", "5">>, <<"-", "1">>, <<"0", "0", "7">>}

InitStart ==
    /\ \E u \in BOOLEAN, m \in BOOLEAN, w \in StartTexts, h \in StartTexts,
          i \in 1..Len(PRESETS) :
          app = [new EXCEPT !.selected_files = <<PathOf("in", <<"a", ".", "p", "n", "g">>)>>,
                            !.output_directory = Some("out"),
                            !.use_custom_size = u,
                            !.maintain_aspect_ratio = m,
                            !.custom_width = w,
                            !.custom_height = h,
                            !.selected_preset = PRESETS[i]]
    /\ runs = << >>
    /\ chan = << >>
    /\ received = << >>
    /\ fs = {}
    /\ inputs = 0
    /\ dimIn = None /\ dimOut = None /\ fmtIn = None /\ fmtOut = None

NextStart == FrameStartProcessing

SpecStart == InitStart /\ [][NextStart]_vars

\* C18: every preset of the catalog has width > 0 and height > 0, and so
\* has every preset a run is started with, the custom ones included,
\* whatever the text of the two custom fields.
C18_PresetPositive ==
    /\ \A i \in 1..Len(PRESETS) : PRESETS[i].width > 0 /\ PRESETS[i].height > 0
    /\ \A r \in 1..Len(runs) : runs[r].preset.width > 0 /\ runs[r].preset.height > 0

\* a run started with Custom Size and the width field reading 0
C18_Witness ==
    \E r \in 1..Len(runs) :
        /\ runs[r].preset.name = "Custom"
        /\ app.custom_width = <<"0">>
        /\ runs[r].preset.width = 0
        /\ runs[r].preset.height = 600

\* what holds: the catalog, and the fall-back of a text that does not parse
C18_FallBack ==
    /\ \A i \in 1..Len(PRESETS) : PRESETS[i].width > 0 /\ PRESETS[i].height > 0
    /\ \A r \in 1..Len(runs) :
          /\ ~app.use_custom_size => runs[r].preset = app.selected_preset
          /\ app.use_custom_size =>
                /\ parse(app.custom_width) = None => runs[r].preset.width = 800
                /\ parse(app.custom_height) = None => runs[r].preset.height = 600
                /\ parse(app.custom_width) # None =>
                      runs[r].preset.width = parse(app.custom_width)[1]


(***************************************************************************)
(* C19.  The steps of the single-image processor.                          *)
(***************************************************************************)
ProcessorSteps == <<"open", "dimensions", "resize", "format", "save">>

\* the errors a step can end with
ErrorsOf(step) ==
    CASE step = "open" -> {"Failed to open image"}
      [] step = "format" -> {"No file extension found", "Unsupported image format"}
      [] step = "save" -> {"Failed to create output file", "Failed to encode JPEG",
                           "Failed to save image"}
      [] OTHER -> {}

\* what one call of the processor did, o, on the input path with the preset
InOrder(o, input_path, preset) ==
    /\ Len(o.steps) \in 1..Len(ProcessorSteps)
    /\ o.steps = SubSeq(ProcessorSteps, 1, Len(o.steps))
    /\ o.result.ok <=> o.result = Ok(Unit)
    /\ o.result.ok => o.steps = ProcessorSteps /\ o.created
    /\ ~o.result.ok => o.result.e[1] \in ErrorsOf(Last(o.steps))
    /\ (o.resize = None) <=> (o.steps = <<"open">>)
    /\ Last(o.steps) # "save" => ~o.created
    /\ ~get_output_format(preset.output_format, input_path).ok =>
          \/ o.steps = <<"open">>
          \/ /\ Len(o.steps) = 4
             /\ o.result = get_output_format(preset.output_format, input_path)

\* C19: the processor runs open, dimensions, resize, format, save in this
\* order and stops at the first step that fails, with that step's error;
\* a call that ends at open or at format leaves the file system as it
\* was, and a file that does not decode gives the error of open even when
\* its format cannot be resolved either.
C19_StepOrder ==
    [][\A r \in 1..Len(runs) :
          Len(FileEvents(runs'[r])) > Len(FileEvents(runs[r])) =>
              LET e == Last(runs'[r].trace)
              IN  /\ InOrder(e.out[1], e.input[1], runs[r].preset)
                  /\ Last(e.out[1].steps) # "save" => fs' = fs
                  /\ e.out[1].created => e.path[1] \in fs']_vars

\* a file without extension under a preset that keeps the original format:
\* its first processing ended at open, its second at format, and no output
\* file exists
C19_Witness ==
    /\ Len(FileEvents(runs[1])) = 2
    /\ runs[1].files[1] = runs[1].files[2]
    /\ ~get_output_format(runs[1].preset.output_format, runs[1].files[1]).ok
    /\ FileEvents(runs[1])[1].out[1].result = Err("Failed to open image")
    /\ FileEvents(runs[1])[2].out[1].result = Err("No file extension found")
    /\ FileEvents(runs[1])[2].out[1].resize # None
    /\ fs = {}


(***************************************************************************)
(* C20.  One worker at a time.                                             *)
(***************************************************************************)
\* the threads that have not ended
Live == {r \in 1..Len(runs) : runs[r].pc # "done"}

\* C20: at most one worker thread is live at any time: a run is started
\* only when the terminal message of every run before it has been taken
\* by a poll, so the receiver of a run that is not finished is never
\* replaced.
C20_SingleWorker ==
    /\ Cardinality(Live) <= 1
    /\ \A r \in 1..Len(runs) : r < Len(runs) => TerminalDrained(r)
    /\ \A r \in Live : chan[r].rx

\* two worker threads in the middle of their loops at once, the first with
\* its receiver gone
C20_Witness ==
    /\ Live = {1, 2}
    /\ runs[1].pc = "file"
    /\ runs[2].pc = "file"
    /\ ~chan[1].rx
    /\ app.processing_receiver = Some(2)
    /\ app.processing_status = Idle


(***************************************************************************)
(* C21.  The output paths of one batch.                                    *)
(***************************************************************************)
\* C21: within one batch, two different input paths are never given the
\* same output path, so a file written for one input is not overwritten
\* by the output of another input of the batch.
C21_DistinctOutputPaths ==
    \A r \in 1..Len(runs) :
        LET events == FileEvents(runs[r])
        IN  \A i \in 1..Len(events), j \in 1..Len(events) :
                events[i].input # events[j].input => events[i].path # events[j].path

\* a.png and a.JPG under a preset that writes PNG: both were processed
\* with success and both were written to the same path, which is the only
\* file in the output directory
C21_Witness ==
    /\ runs[1].pc = "done"
    /\ runs[1].preset.output_format = "Png"
    /\ Len(FileEvents(runs[1])) = 2
    /\ FileEvents(runs[1])[1].input # FileEvents(runs[1])[2].input
    /\ FileEvents(runs[1])[1].path = FileEvents(runs[1])[2].path
    /\ FileEvents(runs[1])[1].out[1].result.ok
    /\ FileEvents(runs[1])[2].out[1].result.ok
    /\ fs = {FileEvents(runs[1])[1].path[1]}
    /\ Last(runs[1].sent) = Completed(2, 0)

\* what holds: two inputs with different stems, or with different
\* extensions under a preset that keeps the original format, get
\* different output paths
C21_DistinctStems ==
    \A r \in 1..Len(runs) :
        LET events == FileEvents(runs[r])
        IN  \A i \in 1..Len(events), j \in 1..Len(events) :
                (\/ file_stem(events[i].input[1]) # file_stem(events[j].input[1])
                 \/ /\ runs[r].preset.output_format = "KeepOriginal"
                    /\ extension(events[i].input[1]) # extension(events[j].input[1])
                    /\ extension(events[i].input[1]) # None
                    /\ extension(events[j].input[1]) # None)
                    => events[i].path # events[j].path


(***************************************************************************)
(* C22.  The Error status.  batch_resize fails as a whole, and the worker  *)
(* sends Error, only for a path without file name; the window is taken     *)
(* with such a path among the files the dialog has returned.               *)
(***************************************************************************)
ErrorFiles ==
    {<<PathOf("in", <<".", ".">>)>>,
     <<PathOf("in", <<"a", ".", "p", "n", "g">>), PathOf("in", <<".", ".">>)>>}

InitError ==
    /\ \E files \in ErrorFiles :
          app = [new EXCEPT !.selected_files = files, !.output_directory = Some("out")]
    /\ runs = << >>
    /\ chan = << >>
    /\ received = << >>
    /\ fs = {}
    /\ inputs = 0
    /\ dimIn = None /\ dimOut = None /\ fmtIn = None /\ fmtOut = None

NextError ==
    \/ FramePoll
    \/ FrameSelectFiles
    \/ FrameStartProcessing
    \/ \E r \in 1..Len(runs) : WorkerProgress(r)
    \/ \E r \in 1..Len(runs) : WorkerFile(r, GuiExternals)
    \/ \E r \in 1..Len(runs) : WorkerFinal(r)
    \/ \E r \in 1..Len(runs) : WorkerTerminal(r)

SpecError == InitError /\ [][NextError]_vars

\* C22: once processing_status is Error, Start Processing is disabled, no
\* run is started and no frame changes processing_status any more; with
\* processing_status Idle or Completed the button is enabled whenever
\* files and an output directory are selected.
C22_ErrorAbsorbing ==
    [][/\ app.processing_status.t = "Error" =>
             /\ ~can_process(app)
             /\ app'.processing_status = app.processing_status
             /\ Len(runs') = Len(runs)
       /\ /\ app.processing_status.t \in {"Idle", "Completed"}
          /\ app.selected_files # << >>
          /\ app.output_directory # None
          => can_process(app)]_vars

\* the status is Error, and files were selected anew in a frame after the
\* one that took the Error message; inputs and runs are left for a start
C22_Witness ==
    /\ app.processing_status = Error("Invalid file name")
    /\ app.processing_receiver = None
    /\ AllNamed(app.selected_files)
    /\ app.output_directory # None
    /\ Len(app.log_messages) >= 2
    /\ app.log_messages[Len(app.log_messages) - 1] = <<"Error: ", "Invalid file name">>
    /\ Last(app.log_messages)[1] = "Selected "
    /\ inputs < MaxInputs
    /\ Len(runs) < MaxRuns


(***************************************************************************)
(* C23.  The progress texts.                                               *)
(***************************************************************************)
\* the log entries made from a Processing message
ProgressEntries ==
    {i \in 1..Len(app.log_messages) : app.log_messages[i][1] = "Processing "}

\* the label shown for a Processing status reads current + 1 of total
LabelOf(status) == <<"Processing ", status.a + 1, " of ", status.b>>

\* C23: every log entry and every status label made from a Processing
\* message reads "Processing k of n" with 1 <= k <= n, and the fraction
\* current / total of the progress bar lies between 0 and 1.
C23_ProgressText ==
    /\ \A i \in ProgressEntries :
          /\ 1 <= app.log_messages[i][2]
          /\ app.log_messages[i][2] <= app.log_messages[i][4]
    /\ app.processing_status.t = "Processing" =>
          /\ 1 <= LabelOf(app.processing_status)[2]
          /\ LabelOf(app.processing_status)[2] <= LabelOf(app.processing_status)[4]
          /\ app.processing_status.b > 0
          /\ 0 <= app.processing_status.a
          /\ app.processing_status.a <= app.processing_status.b

\* a poll fell between the last progress callback of a run of one file and
\* its terminal message: the label and the last log entry read 2 of 1
C23_Witness ==
    /\ Len(runs) = 1
    /\ Len(runs[1].files) = 1
    /\ runs[1].pc = "terminal"
    /\ app.processing_status = Processing(1, 1)
    /\ LabelOf(app.processing_status) = <<"Processing ", 2, " of ", 1>>
    /\ Last(app.log_messages) = <<"Processing ", 2, " of ", 1>>

\* what holds: k is at most n + 1, and the fraction lies between 0 and 1
C23_Fraction ==
    /\ \A i \in ProgressEntries :
          /\ 1 <= app.log_messages[i][2]
          /\ app.log_messages[i][2] <= app.log_messages[i][4] + 1
    /\ app.processing_status.t = "Processing" =>
          /\ app.processing_status.b > 0
          /\ 0 <= app.processing_status.a
          /\ app.processing_status.a <= app.processing_status.b

=============================================================================
